---- MODULE Spec2Model ----
(***************************************************************************)
(* Website-Monitor (src/main.py): the driver loop that loads the table of  *)
(* monitored websites, checks every active website, sends the list of      *)
(* changes and writes the table back, together with the pure functions it  *)
(* is built from.                                                          *)
(*                                                                         *)
(* Representation.  A string is a sequence of symbols; the symbol "#" is   *)
(* the comment character, " " is whitespace, every other symbol stands for *)
(* a run of ordinary characters holding no comma, quote, '#' or space.     *)
(* A line of the table is the sequence of its comma-separated cells, so    *)
(* str.split(',') and the csv writer's ','.join are the identity on lines. *)
(* A Python value read from the table is None or a str; pandas' type       *)
(* inference (numbers, dates) is not modelled: every non-empty cell is     *)
(* text.  A Python dict is the sequence of its items in insertion order.   *)
(***************************************************************************)
EXTENDS Integers, Sequences, FiniteSets, TLC

(***************************************************************************)
(* Bounds of the model.                                                    *)
(***************************************************************************)
\* data rows of a table
MaxRows == 2
\* largest --max-repetition, so the largest number of cycles of a run
MaxRep == 2
\* messages handed to send_output when it is checked on its own
MaxMsgs == 3
\* elements of a document handed to filter_element when checked on its own
MaxElems == 3

(***************************************************************************)
(* Python values and dicts.                                                *)
(***************************************************************************)
None == [kind |-> "None"]

Str(s) == [kind |-> "str", s |-> s]

PyInt(n) == [kind |-> "int", n |-> n]

Exception(name) == [kind |-> "exception", name |-> name]

Item(k, v) == [k |-> k, v |-> v]

DictKeys(d) == [i \in 1..Len(d) |-> d[i].k]

HasKey(d, k) == \E i \in 1..Len(d) : d[i].k = k

DictGet(d, k) == d[CHOOSE i \in 1..Len(d) : d[i].k = k].v

\* d[k] = v: an existing key keeps its position, a new key goes last
DictPut(d, k, v) ==
    IF HasKey(d, k)
    THEN [i \in 1..Len(d) |-> IF d[i].k = k THEN Item(k, v) ELSE d[i]]
    ELSE Append(d, Item(k, v))

RECURSIVE DictFromItems(_)
\* dict(items) and {k: v for ...}: later items overwrite earlier ones
DictFromItems(items) ==
    IF items = <<>> THEN <<>>
    ELSE DictPut(DictFromItems(SubSeq(items, 1, Len(items) - 1)),
                 items[Len(items)].k, items[Len(items)].v)

\* {**a, **b}
DictMerge(a, b) == DictFromItems(a \o b)

RECURSIVE Zip(_, _)
\* zip(names, cells): stops at the shorter of the two
Zip(names, cells) ==
    IF names = <<>> \/ cells = <<>> THEN <<>>
    ELSE <<Item(Head(names), Head(cells))>> \o Zip(Tail(names), Tail(cells))

(***************************************************************************)
(* Strings.                                                                *)
(***************************************************************************)
Hash == "#"

Whitespace == {" ", "\n"}

RECURSIVE LStrip(_, _)
\* str.lstrip(chars)
LStrip(s, chars) ==
    IF s # <<>> /\ Head(s) \in chars THEN LStrip(Tail(s), chars) ELSE s

RECURSIVE RStrip(_, _)
\* str.rstrip(chars)
RStrip(s, chars) ==
    IF s # <<>> /\ s[Len(s)] \in chars
    THEN RStrip(SubSeq(s, 1, Len(s) - 1), chars) ELSE s

StartsWith(s, c) == s # <<>> /\ Head(s) = c

\* the part of s before the first occurrence of c (all of s when there is none)
Before(s, c) ==
    IF \E i \in 1..Len(s) : s[i] = c
    THEN SubSeq(s, 1, (CHOOSE i \in 1..Len(s) :
                         s[i] = c /\ \A j \in 1..(i - 1) : s[j] # c) - 1)
    ELSE s

Contains(s, c) == \E i \in 1..Len(s) : s[i] = c

(***************************************************************************)
(* The table: file.header is the cells of the first line, file.rows the    *)
(* cells of every data line.                                               *)
(***************************************************************************)
Table(header, rows) == [header |-> header, rows |-> rows]

\* what pandas' tokenizer keeps of a line under comment='#': the text before
\* the first '#'; the field in progress ends there
ParseLine(row) ==
    IF \E i \in 1..Len(row) : Contains(row[i], Hash)
    THEN LET i == CHOOSE n \in 1..Len(row) :
                     /\ Contains(row[n], Hash)
                     /\ \A m \in 1..(n - 1) : ~Contains(row[m], Hash)
         IN  SubSeq(row, 1, i - 1) \o <<Before(row[i], Hash)>>
    ELSE row

\* a line that begins with the comment character is skipped whole
IsSkipped(row) == row = <<>> \/ StartsWith(row[1], Hash)

\* a bug: an empty cell kept as the empty string
CellValueKeepsEmpty(cells, j) ==
    IF j <= Len(cells) THEN Str(cells[j]) ELSE None

\* where(~isna, None): an empty or missing cell is None
CellValue(cells, j) ==
    IF j <= Len(cells) /\ cells[j] # <<>> THEN Str(cells[j]) ELSE None

\* one row of the DataFrame as {column: value}, columns from the header
RowValues(names, cells) ==
    [j \in 1..Len(names) |-> Item(names[j], CellValue(cells, j + 1))]

\* the DataFrame read by pd.read_csv(index_col=0, comment='#'): its rows in
\* file order as (index, {column: value})
ReadCsv(f) ==
    LET kept == SelectSeq(f.rows, LAMBDA r : ~IsSkipped(r))
    IN  [i \in 1..Len(kept) |->
            LET cells == ParseLine(kept[i])
            IN  Item(cells[1], RowValues(Tail(f.header), cells))]

\* to_dict(orient='index') raises ValueError unless the index is unique
IndexUnique(df) ==
    \A i, j \in 1..Len(df) : df[i].k = df[j].k => i = j

\* a bug: the table read without comment='#'
get_csv_data_no_comment(f) ==
    [i \in 1..Len(f.rows) |->
        Item(f.rows[i][1], RowValues(Tail(f.header), f.rows[i]))]

\* a bug: the records in the reverse of the file order
get_csv_data_reversed(f) ==
    LET df == ReadCsv(f)
    IN  [i \in 1..Len(df) |-> df[Len(df) + 1 - i]]

get_csv_data(f) == ReadCsv(f)

RECURSIVE DropEmpty(_)
\* lstrip(',') on a line: its leading empty cells go
DropEmpty(cs) ==
    IF cs # <<>> /\ Head(cs) = <<>> THEN DropEmpty(Tail(cs)) ELSE cs

\* header = f.readline().rstrip().lstrip(',').split(',')
CommentHeader(header) ==
    LET n == Len(header)
        stripped == IF n = 0 THEN <<>>
                    ELSE SubSeq(header, 1, n - 1)
                         \o <<RStrip(header[n], Whitespace)>>
        rest == DropEmpty(stripped)
    IN  IF rest = <<>> THEN << <<>> >> ELSE rest

\* line.lstrip('#').rstrip().split(',')
CommentCells(row) ==
    LET n == Len(row)
        first == <<LStrip(row[1], {Hash})>> \o Tail(row)
    IN  SubSeq(first, 1, n - 1) \o <<RStrip(first[n], Whitespace)>>

get_commented_data(f) ==
    LET header == CommentHeader(f.header)
        lines == SelectSeq(f.rows, LAMBDA r : r # <<>> /\ StartsWith(r[1], Hash))
        comments == [i \in 1..Len(lines) |-> CommentCells(lines[i])]
    IN  DictFromItems(
            [i \in 1..Len(comments) |->
                Item(<<Hash>> \o comments[i][1],
                     DictFromItems(
                         LET z == Zip(header, Tail(comments[i]))
                         IN  [j \in 1..Len(z) |-> Item(z[j].k, Str(z[j].v))]))])

RECURSIVE ColumnUnion(_)
\* the columns of DataFrame(data).T: the attribute names of all records, in
\* order of first appearance
ColumnUnion(data) ==
    IF data = <<>> THEN <<>>
    ELSE LET before == ColumnUnion(SubSeq(data, 1, Len(data) - 1))
             own == DictKeys(data[Len(data)].v)
         IN  before \o SelectSeq(own, LAMBDA c :
                                  \A i \in 1..Len(before) : before[i] # c)

\* the text to_csv writes for a value: None and a missing value are empty
ToCsv(d, c) ==
    IF HasKey(d, c) /\ DictGet(d, c) # None THEN DictGet(d, c).s ELSE <<>>

\* the quoted empty field the csv writer emits for a line that is otherwise
\* empty
QuotedEmpty == <<"\"\"">>

\* df = pd.DataFrame(data).T; df.to_csv(path, mode='w'): the unnamed index
\* first, then one column per attribute
write_csv_data(data) ==
    LET cols == ColumnUnion(data)
    IN  Table(IF cols = <<>> THEN <<QuotedEmpty>> ELSE << <<>> >> \o cols,
              [i \in 1..Len(data) |->
                  <<data[i].k>> \o [j \in 1..Len(cols) |-> ToCsv(data[i].v, cols[j])]])

(***************************************************************************)
(* Pages.  The bytes of a page are the sequence of its elements in         *)
(* document order (what html.parser makes of them); an element is its id   *)
(* attribute (empty when it has none), its class tokens and its text.  The *)
(* bytes of one serialized element are told apart from a page.             *)
(***************************************************************************)
Element(id, class, text) == [id |-> id, class |-> class, text |-> text]

\* bytes(str(to_monitor), encoding='utf-8')
Serialize(e) == [html |-> e]

\* the value of a class attribute: its tokens separated by one space
RECURSIVE ClassString(_)
ClassString(tokens) ==
    IF tokens = <<>> THEN <<>>
    ELSE IF Len(tokens) = 1 THEN tokens
    ELSE <<Head(tokens), " ">> \o ClassString(Tail(tokens))

MatchesId(e, name) == e.id = name

\* bs4 matches class_ against every token and against the whole attribute
MatchesClass(e, name) ==
    \/ \E t \in 1..Len(e.class) : <<e.class[t]>> = name
    \/ (e.class # <<>> /\ ClassString(e.class) = name)

\* the first position of doc among hits, the positions that match
FirstOf(doc, hits) ==
    IF hits = {} THEN None
    ELSE Str(doc[CHOOSE i \in hits : \A j \in hits : i <= j])

\* soup.find(id=name): the first element in document order, or None
FindId(doc, name) ==
    FirstOf(doc, {i \in 1..Len(doc) : MatchesId(doc[i], name)})

\* soup.find(class_=name)
FindClass(doc, name) ==
    FirstOf(doc, {i \in 1..Len(doc) : MatchesClass(doc[i], name)})

\* Python truth of an Optional[str]
Truthy(v) == v # None /\ v.s # <<>>

Ok(value) == [ok |-> TRUE, value |-> value]

Raise(err) == [ok |-> FALSE, error |-> err]

\* a bug: the class searched before the id
filter_element_class_first(content, element) ==
    IF ~Truthy(element) THEN Ok(content)
    ELSE LET by_class == FindClass(content, element.s)
             to_monitor == IF by_class = None
                           THEN FindId(content, element.s)
                           ELSE by_class
         IN  IF to_monitor = None THEN Raise("AssertionError")
             ELSE Ok(Serialize(to_monitor.s))

filter_element(content, element) ==
    IF ~Truthy(element) THEN Ok(content)
    ELSE LET by_id == FindId(content, element.s)
             to_monitor == IF by_id = None
                           THEN FindClass(content, element.s)
                           ELSE by_id
         IN  IF to_monitor = None THEN Raise("AssertionError")
             ELSE Ok(Serialize(to_monitor.s))

\* hashlib.sha256(b).hexdigest(): one symbol per digest, distinct bytes
\* giving distinct digests (no collision is modelled)
get_sha256(byte_string) == <<ToString(byte_string)>>

(***************************************************************************)
(* check_file on the state of the path.                                    *)
(***************************************************************************)
PathStates == {"file", "missing", "directory"}

\* a bug: only the existence of the path checked
check_file_exists_only(path) ==
    IF path = "missing" THEN Raise("FileNotFoundError") ELSE Ok(None)

check_file(path) ==
    IF path = "missing" THEN Raise("FileNotFoundError")
    ELSE IF path # "file" THEN Raise("IsADirectoryError")
    ELSE Ok(None)

(***************************************************************************)
(* Output.  A text is the sequence of its lines; print(text) writes the    *)
(* lines of text to the terminal.                                          *)
(***************************************************************************)
RECURSIVE JoinBlank(_)
\* '\n\n'.join(list_of_changes)
JoinBlank(list) ==
    IF list = <<>> THEN << <<>> >>
    ELSE IF Len(list) = 1 THEN list
    ELSE <<Head(list), <<>>>> \o JoinBlank(Tail(list))

\* the banner of line 199, without its two arrow decorations
Banner == <<"Check results">>

Output(printed, sent) == [printed |-> printed, sent |-> sent]

\* get_output_channel: None, or the bot and the chat id
get_output_channel(cli_args) ==
    IF cli_args.token = None \/ cli_args.chat_id = None THEN None
    ELSE [bot |-> cli_args.token, chat_id |-> cli_args.chat_id]

\* a bug: the list sent without looking at its length
send_output_unguarded(list_of_changes, telegram_output) ==
    IF telegram_output # None
    THEN Output(<<>>, <<[bot |-> telegram_output.bot,
                         chat_id |-> telegram_output.chat_id,
                         text |-> JoinBlank(list_of_changes)]>>)
    ELSE Output(<<Banner>> \o JoinBlank(list_of_changes), <<>>)

send_output(list_of_changes, telegram_output) ==
    IF Len(list_of_changes) # 0
    THEN IF telegram_output # None
         THEN Output(<<>>, <<[bot |-> telegram_output.bot,
                              chat_id |-> telegram_output.chat_id,
                              text |-> JoinBlank(list_of_changes)]>>)
         ELSE Output(<<Banner>> \o JoinBlank(list_of_changes), <<>>)
    ELSE Output(<<>>, <<>>)

(***************************************************************************)
(* The state of a run.                                                     *)
(***************************************************************************)
VARIABLES
    pc,                 \* where the script is
    args,               \* the parsed command line
    output_channel,     \* get_output_channel(args)
    path,               \* what args.file points to: a member of PathStates
    file,               \* the table stored at the path
    websites_data,      \* the active records of the cycle
    commented_websites, \* the disabled records of the cycle
    idx,                \* position of perform_check's loop in websites_data
    who_changed_list,   \* the messages perform_check has gathered
    n_checks,           \* cycles completed
    error,              \* the exception that ended the run, or None
    \* what the current cycle has done so far (observations, not program state)
    file_at_load,       \* the table the cycle loaded
    loaded,             \* websites_data as get_csv_data returned it
    fetches,            \* the calls of open_website, in order
    output,             \* what send_output printed and sent
    echoed,             \* the '<url> changed!' lines of verbose mode
    saved,              \* the dict handed to write_csv_data
    \* what the last completed cycle left (an observation)
    previous,           \* the records it stored and the content it selected
    \* a function called on its own
    call,               \* its arguments
    result              \* what it returned or raised

vars == <<pc, args, output_channel, path, file, websites_data,
          commented_websites, idx, who_changed_list, n_checks, error,
          file_at_load, loaded, fetches, output, echoed, saved, previous,
          call, result>>

(***************************************************************************)
(* The world the run sees.                                                 *)
(***************************************************************************)
\* column names of the table
ColHash == <<"hash">>

ColFilter == <<"filter">>

ColDate == <<"last_change_date">>

\* datetime.datetime.today().strftime('%Y-%m-%d')
Today == <<"today">>

OldDate == <<"2020-01-01">>

\* the pages a website may serve: PageA and PageB differ in the element
\* with id "main"; PageB has lost its "side" element
PageA == <<Element(<<"main">>, <<>>, "v1"), Element(<<>>, <<"side">>, "s")>>

PageB == <<Element(<<"main">>, <<>>, "v2")>>

Pages == {PageA, PageB}

(***************************************************************************)
(* The script, lines 309-359.                                              *)
(***************************************************************************)
\* lines 309-318: parser.error ends the run before the loop
Start ==
    /\ pc = "start"
    /\ IF args.max_repetition # 0 /\ args.repeat_every = None
       THEN pc' = "usage_error" /\ UNCHANGED output_channel
       ELSE pc' = "check_file" /\ output_channel' = get_output_channel(args)
    /\ UNCHANGED <<args, path, file, websites_data, commented_websites, idx,
                   who_changed_list, n_checks, error, file_at_load, loaded,
                   fetches, output, echoed, saved, previous, call, result>>

\* line 322
CheckFile ==
    /\ pc = "check_file"
    /\ LET r == check_file(path)
       IN  IF r.ok THEN pc' = "load" /\ UNCHANGED error
           ELSE pc' = "crashed" /\ error' = Exception(r.error)
    /\ file_at_load' = file
    /\ loaded' = <<>>
    /\ fetches' = <<>>
    /\ output' = Output(<<>>, <<>>)
    /\ echoed' = <<>>
    /\ saved' = <<>>
    /\ UNCHANGED <<args, output_channel, path, file, websites_data,
                   commented_websites, idx, who_changed_list, n_checks,
                   previous, call, result>>

\* lines 325-326 and the entry of perform_check, lines 231-235
Load ==
    /\ pc = "load"
    /\ LET df == get_csv_data(file)
       IN  IF IndexUnique(df)
           THEN /\ websites_data' = df
                /\ loaded' = df
                /\ commented_websites' = get_commented_data(file)
                /\ idx' = 1
                /\ who_changed_list' = <<>>
                /\ pc' = "check"
                /\ UNCHANGED error
           ELSE /\ pc' = "crashed"
                /\ error' = Exception("ValueError")
                /\ UNCHANGED <<websites_data, loaded, commented_websites,
                               idx, who_changed_list>>
    /\ UNCHANGED <<args, output_channel, path, file, n_checks, file_at_load,
                   fetches, output, echoed, saved, previous, call, result>>

\* line 246: the part of a page that the filter of a record selects
Selected(page, values) == filter_element(page, DictGet(values, ColFilter))

\* a bug: the failing record skipped and the pass carried on
PropagateSkips(err) ==
    /\ pc' = pc
    /\ error' = error
    /\ idx' = idx + 1
    /\ UNCHANGED <<websites_data, who_changed_list, echoed>>

\* an exception raised inside perform_check is caught nowhere
Propagate(err) ==
    /\ pc' = "crashed"
    /\ error' = Exception(err)
    /\ UNCHANGED <<websites_data, idx, who_changed_list, echoed>>

\* a bug: every record reported
HashChangedAlways(new_hash, previous_hash) == TRUE

\* line 250
HashChanged(new_hash, previous_hash) == new_hash # previous_hash

\* line 245 raising: the request fails
FetchFails ==
    /\ pc = "check"
    /\ idx <= Len(websites_data)
    /\ fetches' = Append(fetches, [url |-> websites_data[idx].k,
                                   response |-> Raise("ConnectionError")])
    /\ Propagate("ConnectionError")
    /\ UNCHANGED <<args, output_channel, path, file, commented_websites,
                   n_checks, file_at_load, loaded, output, saved, previous,
                   call, result>>

\* lines 237-246 with filter_element raising
SelectFails ==
    /\ pc = "check"
    /\ idx <= Len(websites_data)
    /\ \E page \in Pages :
          LET values == websites_data[idx].v
              selected == filter_element(page, DictGet(values, ColFilter))
          IN  /\ ~selected.ok
              /\ fetches' = Append(fetches, [url |-> websites_data[idx].k,
                                             response |-> Ok(page)])
              /\ Propagate(selected.error)
    /\ UNCHANGED <<args, output_channel, path, file, commented_websites,
                   n_checks, file_at_load, loaded, output, saved, previous,
                   call, result>>

\* a bug: the date of the check stored for every record, changed or not
CheckRecordStampsAll ==
    /\ pc = "check"
    /\ idx <= Len(websites_data)
    /\ \E page \in Pages :
          LET website == websites_data[idx].k
              values == websites_data[idx].v
              previous_hash == DictGet(values, ColHash)
              selected == filter_element(page, DictGet(values, ColFilter))
              new_hash == Str(get_sha256(selected.value))
          IN  /\ selected.ok
              /\ fetches' = Append(fetches, [url |-> website,
                                             response |-> Ok(page)])
              /\ IF HashChanged(new_hash, previous_hash)
                 THEN /\ who_changed_list' =
                            Append(who_changed_list, website \o <<" changed!">>)
                      /\ echoed' = IF args.verbose
                                   THEN Append(echoed, website \o <<" changed!">>)
                                   ELSE echoed
                      /\ websites_data' =
                            [websites_data EXCEPT ![idx].v =
                                DictPut(DictPut(values, ColHash, new_hash),
                                        ColDate, Str(Today))]
                 ELSE /\ websites_data' =
                            [websites_data EXCEPT ![idx].v =
                                DictPut(values, ColDate, Str(Today))]
                      /\ UNCHANGED <<who_changed_list, echoed>>
    /\ idx' = idx + 1
    /\ UNCHANGED <<pc, args, output_channel, path, file, commented_websites,
                   n_checks, error, file_at_load, loaded, output, saved, previous,
                   call, result>>

\* lines 237-259: one turn of the loop that runs to its end
CheckRecord ==
    /\ pc = "check"
    /\ idx <= Len(websites_data)
    /\ \E page \in Pages :
          LET website == websites_data[idx].k
              values == websites_data[idx].v
              previous_hash == DictGet(values, ColHash)
              selected == filter_element(page, DictGet(values, ColFilter))
              new_hash == Str(get_sha256(selected.value))
          IN  /\ selected.ok
              /\ fetches' = Append(fetches, [url |-> website,
                                             response |-> Ok(page)])
              /\ IF HashChanged(new_hash, previous_hash)
                 THEN /\ who_changed_list' =
                            Append(who_changed_list, website \o <<" changed!">>)
                      /\ echoed' = IF args.verbose
                                   THEN Append(echoed, website \o <<" changed!">>)
                                   ELSE echoed
                      /\ websites_data' =
                            [websites_data EXCEPT ![idx].v =
                                DictPut(DictPut(values, ColHash, new_hash),
                                        ColDate, Str(Today))]
                 ELSE UNCHANGED <<who_changed_list, echoed, websites_data>>
    /\ idx' = idx + 1
    /\ UNCHANGED <<pc, args, output_channel, path, file, commented_websites,
                   n_checks, error, file_at_load, loaded, output, saved, previous,
                   call, result>>

\* line 261 and line 332
SendOutput ==
    /\ pc = "check"
    /\ idx > Len(websites_data)
    /\ output' = send_output(who_changed_list, output_channel)
    /\ pc' = "write"
    /\ UNCHANGED <<args, output_channel, path, file, websites_data,
                   commented_websites, idx, who_changed_list, n_checks, error,
                   file_at_load, loaded, fetches, echoed, saved, previous,
                   call, result>>

\* a bug: the records written as they were loaded, not as the pass left them
WriteCsvAsLoaded ==
    /\ pc = "write"
    /\ saved' = DictMerge(loaded, commented_websites)
    /\ file' = write_csv_data(saved')
    /\ previous' = [stored |-> websites_data,
                    selected |-> [i \in 1..Len(fetches) |->
                                     Selected(fetches[i].response.value,
                                              loaded[i].v).value]]
    /\ n_checks' = n_checks + 1
    /\ pc' = "loop_end"
    /\ UNCHANGED <<args, output_channel, path, websites_data,
                   commented_websites, idx, who_changed_list, error,
                   file_at_load, loaded, fetches, output, echoed, call, result>>

\* lines 337-340
WriteCsv ==
    /\ pc = "write"
    /\ saved' = DictMerge(websites_data, commented_websites)
    /\ file' = write_csv_data(saved')
    /\ previous' = [stored |-> websites_data,
                    selected |-> [i \in 1..Len(fetches) |->
                                     Selected(fetches[i].response.value,
                                              loaded[i].v).value]]
    /\ n_checks' = n_checks + 1
    /\ pc' = "loop_end"
    /\ UNCHANGED <<args, output_channel, path, websites_data,
                   commented_websites, idx, who_changed_list, error,
                   file_at_load, loaded, fetches, output, echoed, call, result>>

\* a bug: the loop left one cycle late
MaxRepetitionDoneLate(checks, max_repetition) == checks > max_repetition

\* line 342
MaxRepetitionDone(checks, max_repetition) == checks >= max_repetition

\* lines 342-347
Exit ==
    /\ pc = "loop_end"
    /\ MaxRepetitionDone(n_checks, args.max_repetition)
    /\ pc' = "done"
    /\ UNCHANGED <<args, output_channel, path, file, websites_data,
                   commented_websites, idx, who_changed_list, n_checks, error,
                   file_at_load, loaded, fetches, output, echoed, saved,
                   previous, call, result>>

\* lines 350-359: while the script sleeps the file may be moved or replaced
\* by a directory (line 321)
Sleep ==
    /\ pc = "loop_end"
    /\ ~MaxRepetitionDone(n_checks, args.max_repetition)
    /\ IF args.repeat_every # None /\ args.repeat_every.n # 0
       THEN path' \in PathStates
       ELSE UNCHANGED path
    /\ pc' = "check_file"
    /\ UNCHANGED <<args, output_channel, file, websites_data,
                   commented_websites, idx, who_changed_list, n_checks, error,
                   file_at_load, loaded, fetches, output, echoed, saved,
                   previous, call, result>>

(***************************************************************************)
(* Runs of the script on the tables of Tables with the arguments of        *)
(* Arguments.                                                              *)
(***************************************************************************)
CanonicalHeader == << <<>>, ColHash, ColFilter, ColDate >>

\* sequences over S of at most n members
SeqsUpTo(S, n) == UNION {[1..m -> S] : m \in 0..n}

KeysDistinct(rows) ==
    \A i, j \in 1..Len(rows) : rows[i][1] = rows[j][1] => i = j

\* the hash a check of PageA stores for a record with this filter cell
StoredHash(filter) ==
    get_sha256(filter_element(PageA, CellValue(<<filter>>, 1)).value)

\* rows of a table kept by the script: an active or a disabled website,
\* either never checked (no hash, no date) or last checked on OldDate when
\* it served PageA
PlainRows ==
    {<<key, IF checked THEN StoredHash(filter) ELSE <<>>, filter,
       IF checked THEN OldDate ELSE <<>> >> :
        key \in {<<"a">>, <<"b">>, <<Hash, "c">>},
        filter \in {<<>>, <<"main">>, <<"side">>},
        checked \in BOOLEAN}

PlainTables ==
    {Table(CanonicalHeader, rows) :
        rows \in {r \in SeqsUpTo(PlainRows, MaxRows) : KeysDistinct(r)}}

Arguments ==
    {a \in [token : {None, Str(<<"token">>)},
            chat_id : {None, Str(<<"chat">>)},
            repeat_every : {None, PyInt(1)},
            max_repetition : 0..MaxRep,
            verbose : BOOLEAN] :
        (a.token = None) = (a.chat_id = None)}

InitRun(tables, arguments) ==
    /\ pc = "start"
    /\ args \in arguments
    /\ output_channel = None
    /\ path \in PathStates
    /\ file \in tables
    /\ websites_data = <<>>
    /\ commented_websites = <<>>
    /\ idx = 1
    /\ who_changed_list = <<>>
    /\ n_checks = 0
    /\ error = None
    /\ file_at_load = file
    /\ loaded = <<>>
    /\ fetches = <<>>
    /\ output = Output(<<>>, <<>>)
    /\ echoed = <<>>
    /\ saved = <<>>
    /\ previous = None
    /\ call = None
    /\ result = None

Init == InitRun(PlainTables, Arguments)

Next ==
    \/ Start
    \/ CheckFile
    \/ Load
    \/ FetchFails
    \/ SelectFails
    \/ CheckRecord
    \/ SendOutput
    \/ WriteCsv
    \/ Exit
    \/ Sleep

Spec == Init /\ [][Next]_vars

(***************************************************************************)
(* Properties of a run.                                                    *)
(***************************************************************************)
\* the rows of a table whose key does not begin with '#', and those whose
\* key does
ActiveRows(f) == SelectSeq(f.rows, LAMBDA r : ~StartsWith(r[1], Hash))

DisabledRows(f) == SelectSeq(f.rows, LAMBDA r : StartsWith(r[1], Hash))

\* the cycle has loaded its table and is in or past perform_check
InPass ==
    \/ pc \in {"check", "write", "loop_end", "done"}
    \/ (pc = "crashed" /\ fetches # <<>>)

\* the records perform_check has dealt with to the end of the loop body
Checked == 1..(idx - 1)

\* the fingerprint of what the i-th fetch returned, under the filter the
\* i-th record was loaded with
NewHash(i) ==
    Str(get_sha256(filter_element(fetches[i].response.value,
                                  DictGet(loaded[i].v, ColFilter)).value))

Message(i) == loaded[i].k \o <<" changed!">>

Occurrences(list, x) == Cardinality({n \in 1..Len(list) : list[n] = x})

Differs(i) == NewHash(i) # DictGet(loaded[i].v, ColHash)

RECURSIVE ChangedMessages(_)
\* the messages of the changed records among the first n, in record order
ChangedMessages(n) ==
    IF n = 0 THEN <<>>
    ELSE ChangedMessages(n - 1) \o (IF Differs(n) THEN <<Message(n)>> ELSE <<>>)

\* C1: in a pass of perform_check, a record whose new fingerprint equals the
\* stored one is left as loaded and gets no message; a record whose new
\* fingerprint differs gets hash = the new fingerprint, last_change_date =
\* today and exactly one message '<url> changed!'; the list holds exactly the
\* messages of the changed records.
C1_CheckMutatesExactlyChanged ==
    InPass =>
        /\ \A i \in Checked :
              IF Differs(i)
              THEN /\ websites_data[i].k = loaded[i].k
                   /\ DictGet(websites_data[i].v, ColHash) = NewHash(i)
                   /\ DictGet(websites_data[i].v, ColDate) = Str(Today)
                   /\ Occurrences(who_changed_list, Message(i)) = 1
              ELSE /\ websites_data[i] = loaded[i]
                   /\ Occurrences(who_changed_list, Message(i)) = 0
        /\ who_changed_list = ChangedMessages(idx - 1)

\* a finished pass over two records, the first unchanged, the second changed
C1_Witness ==
    /\ pc = "write"
    /\ Len(loaded) = 2
    /\ ~Differs(1)
    /\ Differs(2)
    /\ DictGet(loaded[1].v, ColDate) = Str(OldDate)

\* C2: a record whose hash cell is empty in the table is loaded with hash
\* None (not the empty string), and its first successful check reports it:
\* hash and last_change_date are set and one message is produced.
C2_AbsentHashIsReported ==
    InPass =>
        \A i \in 1..Len(loaded) :
            ActiveRows(file_at_load)[i][2] = <<>> =>
                /\ DictGet(loaded[i].v, ColHash) = None
                /\ i \in Checked =>
                      /\ DictGet(websites_data[i].v, ColHash) = NewHash(i)
                      /\ DictGet(websites_data[i].v, ColHash) # None
                      /\ DictGet(websites_data[i].v, ColDate) = Str(Today)
                      /\ Occurrences(who_changed_list, Message(i)) = 1

\* a never-checked record has been checked in the first cycle
C2_Witness ==
    /\ pc = "write"
    /\ n_checks = 0
    /\ \E i \in Checked : /\ ActiveRows(file_at_load)[i][2] = <<>>
                          /\ ActiveRows(file_at_load)[i][4] = <<>>
                          /\ who_changed_list # <<>>

\* the attributes of a table row under the canonical columns, as text
RowAsText(r) ==
    <<Item(ColHash, Str(r[2])), Item(ColFilter, Str(r[3])),
      Item(ColDate, Str(r[4]))>>

\* C3: in every cycle no fetch is issued for the URL of a disabled row (a
\* fetch goes to the key of an active row, which is neither the key of a
\* disabled row nor that key without its marker), and the disabled records
\* handed to write_csv_data are those of the table the cycle loaded, in
\* order, whatever perform_check changed.
C3_DisabledNeverFetchedAndKept ==
    /\ \A n \in 1..Len(fetches) :
          /\ \E r \in 1..Len(ActiveRows(file_at_load)) :
                ActiveRows(file_at_load)[r][1] = fetches[n].url
          /\ \A r \in 1..Len(DisabledRows(file_at_load)) :
                /\ DisabledRows(file_at_load)[r][1] # fetches[n].url
                /\ DisabledRows(file_at_load)[r][1] # <<Hash>> \o fetches[n].url
    /\ pc \in {"loop_end", "done"} =>
          SelectSeq(saved, LAMBDA it : StartsWith(it.k, Hash))
            = [r \in 1..Len(DisabledRows(file_at_load)) |->
                  Item(DisabledRows(file_at_load)[r][1],
                       RowAsText(DisabledRows(file_at_load)[r]))]

\* the second cycle has written a table with a disabled row after a pass in
\* which a record changed
C3_Witness ==
    /\ pc = "loop_end"
    /\ n_checks = 2
    /\ DisabledRows(file_at_load) # <<>>
    /\ who_changed_list # <<>>
    /\ Len(fetches) >= 1

\* the i-th fetch failed, or what it returned has no element for the filter
Failed(i) ==
    \/ ~fetches[i].response.ok
    \/ ~filter_element(fetches[i].response.value,
                       DictGet(loaded[i].v, ColFilter)).ok

NothingDelivered == output = Output(<<>>, <<>>)

\* C6: when the fetch or the selection fails for a record, the run ends
\* there: that fetch is the last one, nothing is delivered, nothing is
\* written, the table stays the one the cycle loaded and no step follows.
C6_FailureAbortsRun ==
    \A i \in 1..Len(fetches) :
        Failed(i) =>
            /\ pc = "crashed"
            /\ error \in {Exception("ConnectionError"),
                          Exception("AssertionError")}
            /\ i = Len(fetches)
            /\ i = idx
            /\ NothingDelivered
            /\ saved = <<>>
            /\ file = file_at_load
            /\ ~ENABLED Next

\* the second record fails after the first was found changed
C6_Witness ==
    /\ pc = "crashed"
    /\ Len(fetches) = 2
    /\ Failed(2)
    /\ who_changed_list # <<>>
    /\ Len(loaded) = 2

\* C7: a cycle gets past check_file only when the path is a file; a missing
\* path ends the run with FileNotFoundError and a directory with
\* IsADirectoryError, before anything is loaded, fetched, delivered or
\* written in that cycle.
C7_PathCheckedFirst ==
    /\ pc \in {"load", "check", "write", "loop_end", "done"} => path = "file"
    /\ (path # "file" /\ pc \notin {"start", "usage_error", "check_file"}) =>
          /\ pc = "crashed"
          /\ error = Exception(IF path = "missing" THEN "FileNotFoundError"
                               ELSE "IsADirectoryError")
          /\ loaded = <<>>
          /\ fetches = <<>>
          /\ NothingDelivered
          /\ saved = <<>>
          /\ file = file_at_load
          /\ ~ENABLED Next

\* the path has become a directory while the script slept
C7_Witness ==
    /\ pc = "crashed"
    /\ error = Exception("IsADirectoryError")
    /\ n_checks = 1

\* the number of cycles the command line asks for: --max-repetition with
\* --repeat-every, one without --repeat-every
ConfiguredCycles ==
    IF args.repeat_every # None /\ args.max_repetition >= 1
    THEN args.max_repetition
    ELSE 1

\* C11: with --repeat-every and --max-repetition N >= 1 the script leaves
\* its loop after exactly N completed cycles, and without --repeat-every
\* after exactly one: it never completes more, it is done only with that
\* count, and at the end of a cycle it exits when the count is reached and
\* goes on to the next cycle when it is not.
C11_ExitsAfterConfiguredCycles ==
    (args.repeat_every = None \/ args.max_repetition >= 1) =>
        /\ n_checks <= ConfiguredCycles
        /\ pc = "done" => n_checks = ConfiguredCycles
        /\ pc = "loop_end" =>
              IF n_checks = ConfiguredCycles
              THEN ENABLED Exit /\ ~ENABLED Sleep
              ELSE ENABLED Sleep /\ ~ENABLED Exit

\* the script has exited after the two cycles it was asked for
C11_Witness ==
    /\ pc = "done"
    /\ args.repeat_every # None
    /\ args.max_repetition = 2
    /\ n_checks = 2

\* C12: with --repeat-every and no --max-repetition the script does not
\* exit after the first check: it is done only after a second cycle.
C12_RepeatsWithoutMaxRepetition ==
    (args.repeat_every # None /\ args.max_repetition = 0 /\ pc = "done") =>
        n_checks >= 2

\* C13: perform_check adds, removes and renames no record and leaves every
\* attribute but hash and last_change_date as loaded (the filter among
\* them); last_change_date differs from the loaded one only in a record the
\* pass has dealt with and whose hash it has changed.
C13_CheckWritesOnlyHashAndDate ==
    InPass =>
        /\ DictKeys(websites_data) = DictKeys(loaded)
        /\ \A i \in 1..Len(loaded) :
              LET now == websites_data[i].v
                  was == loaded[i].v
              IN  /\ DictKeys(now) = DictKeys(was)
                  /\ \A c \in 1..Len(was) :
                        was[c].k \notin {ColHash, ColDate} => now[c] = was[c]
                  /\ DictGet(now, ColFilter) = DictGet(was, ColFilter)
                  /\ DictGet(now, ColDate) # DictGet(was, ColDate) =>
                        /\ i \in Checked
                        /\ DictGet(now, ColHash) # DictGet(was, ColHash)
                  /\ now # was => i \in Checked

\* a finished pass over a record with a filter that changed and a record
\* that did not
C13_Witness ==
    /\ pc = "write"
    /\ Len(loaded) = 2
    /\ DictGet(loaded[1].v, ColFilter) = Str(<<"main">>)
    /\ Differs(1)
    /\ DictGet(websites_data[1].v, ColDate) = Str(Today)
    /\ ~Differs(2)
    /\ DictGet(websites_data[2].v, ColDate) = Str(OldDate)

\* C14: a pass deals with the active records one at a time in file order:
\* the n-th fetch goes to the n-th active row of the loaded table, no URL is
\* fetched twice, a fetch is made only when every record before it has been
\* dealt with to the end (its message, if it changed, is in the list), a
\* completed pass has fetched every active record, and the messages name
\* changed URLs in the order of their fetches, each at most once.
C14_PassSequentialInFileOrder ==
    InPass =>
        LET rows == ActiveRows(file_at_load)
            last == IF pc = "crashed" THEN Len(fetches) - 1 ELSE Len(fetches)
        IN  /\ Len(fetches) <= Len(rows)
            /\ \A n \in 1..Len(fetches) : fetches[n].url = rows[n][1]
            /\ \A n, m \in 1..Len(fetches) :
                  fetches[n].url = fetches[m].url => n = m
            /\ last = idx - 1
            /\ \A n \in 1..last :
                  Differs(n) => Occurrences(who_changed_list, Message(n)) = 1
            /\ pc \in {"write", "loop_end", "done"} => Len(fetches) = Len(rows)
            /\ \E at \in [1..Len(who_changed_list) -> 1..last] :
                  /\ \A k \in 1..Len(who_changed_list) :
                        /\ who_changed_list[k]
                             = fetches[at[k]].url \o <<" changed!">>
                        /\ Differs(at[k])
                  /\ \A k \in 1..(Len(who_changed_list) - 1) : at[k] < at[k + 1]

\* a finished pass over two records that both changed
C14_Witness ==
    /\ pc = "write"
    /\ Len(fetches) = 2
    /\ Len(who_changed_list) = 2
    /\ who_changed_list[1] = fetches[1].url \o <<" changed!">>
    /\ fetches[1].url # fetches[2].url

\* the i-th fetch of this cycle selected the content that the previous
\* cycle selected for the i-th record
SameContent(i) ==
    Selected(fetches[i].response.value, loaded[i].v).value
        = previous.selected[i]

\* C15: in a cycle that follows a completed one, the records loaded are
\* those the previous cycle stored; a record whose selected content is what
\* the previous cycle selected gets no message and keeps the hash and the
\* last_change_date the previous cycle stored; when that is so for every
\* record, the pass ends with no message, nothing is delivered and the
\* records to write are the stored ones.  A change reported by the previous
\* cycle is thus not reported again.
C15_RecheckIdempotent ==
    (previous # None /\ (pc = "check" \/ pc = "write"
                          \/ (pc = "crashed" /\ fetches # <<>>))) =>
        /\ loaded = previous.stored
        /\ \A i \in Checked :
              SameContent(i) =>
                  /\ websites_data[i] = previous.stored[i]
                  /\ Occurrences(who_changed_list, Message(i)) = 0
        /\ (pc = "write" /\ \A i \in 1..Len(fetches) : SameContent(i)) =>
              /\ who_changed_list = <<>>
              /\ NothingDelivered
              /\ websites_data = previous.stored
              /\ write_csv_data(DictMerge(websites_data, commented_websites))
                   = file

\* the second cycle has found the content that the first cycle reported as
\* a change of a record checked before
C15_Witness ==
    /\ pc = "write"
    /\ n_checks = 1
    /\ previous # None
    /\ Len(fetches) = 2
    /\ \A i \in 1..Len(fetches) : SameContent(i)
    /\ ActiveRows(file_at_load)[1][4] = Today
    /\ fetches[1].response.value = PageB
    /\ DictGet(previous.stored[1].v, ColDate) = Str(Today)
    /\ who_changed_list = <<>>

(***************************************************************************)
(* filter_element called on its own, on the documents of Documents.        *)
(***************************************************************************)
Elements ==
    {Element(id, class, text) :
        id \in {<<>>, <<"x">>, <<"y">>},
        class \in {<<>>, <<"x">>, <<"y", "x">>},
        text \in {"t1", "t2"}}

Documents == SeqsUpTo(Elements, MaxElems)

Selectors == {None, Str(<<>>), Str(<<"x">>), Str(<<"y">>)}

\* a function about to be called on one of the calls, the script at rest
InitCall(calls) ==
    /\ pc = "call"
    /\ call \in calls
    /\ result = None
    /\ args = None
    /\ output_channel = None
    /\ path = "file"
    /\ file = Table(CanonicalHeader, <<>>)
    /\ websites_data = <<>>
    /\ commented_websites = <<>>
    /\ idx = 1
    /\ who_changed_list = <<>>
    /\ n_checks = 0
    /\ error = None
    /\ file_at_load = file
    /\ loaded = <<>>
    /\ fetches = <<>>
    /\ output = Output(<<>>, <<>>)
    /\ echoed = <<>>
    /\ saved = <<>>
    /\ previous = None

InitFilter ==
    InitCall({[content |-> d, element |-> e] : d \in Documents, e \in Selectors})

CallFilterElement ==
    /\ pc = "call"
    /\ result' = filter_element(call.content, call.element)
    /\ pc' = "returned"
    /\ UNCHANGED <<call, args, output_channel, path, file, websites_data,
                   commented_websites, idx, who_changed_list, n_checks, error,
                   file_at_load, loaded, fetches, output, echoed, saved,
                   previous>>

NextFilter == CallFilterElement

SpecFilter == InitFilter /\ [][NextFilter]_vars

\* C8: filter_element returns the content as it is when the selector is
\* None or empty; otherwise the serialization of the first element whose id
\* is the selector if there is one (also when an element of that class comes
\* earlier), else that of the first element whose class holds the selector,
\* and it raises AssertionError when there is neither.
C8_FilterElementIdThenClass ==
    pc = "returned" =>
        LET doc == call.content
            sel == call.element
            HasId(e) == e.id = sel.s
            HasClass(e) == \/ \E t \in 1..Len(e.class) : <<e.class[t]>> = sel.s
                           \/ (e.class # <<>> /\ ClassString(e.class) = sel.s)
        IN  IF sel = None \/ sel = Str(<<>>) THEN result = Ok(doc)
            ELSE IF \E i \in 1..Len(doc) : HasId(doc[i])
            THEN \E i \in 1..Len(doc) :
                    /\ HasId(doc[i])
                    /\ \A j \in 1..(i - 1) : ~HasId(doc[j])
                    /\ result = Ok(Serialize(doc[i]))
            ELSE IF \E i \in 1..Len(doc) : HasClass(doc[i])
            THEN \E i \in 1..Len(doc) :
                    /\ HasClass(doc[i])
                    /\ \A j \in 1..(i - 1) : ~HasClass(doc[j])
                    /\ result = Ok(Serialize(doc[i]))
            ELSE result = Raise("AssertionError")

\* an element of class x comes before the element with id x, which is
\* returned
C8_Witness ==
    /\ pc = "returned"
    /\ call.element = Str(<<"x">>)
    /\ Len(call.content) = 3
    /\ call.content[1].class = <<"x">>
    /\ call.content[1].id = <<>>
    /\ call.content[3].id = <<"x">>
    /\ call.content[2].id # <<"x">>
    /\ result = Ok(Serialize(call.content[3]))

(***************************************************************************)
(* send_output called on its own.                                          *)
(***************************************************************************)
Messages == {<<"first">>, <<"second">>, <<"a", " changed!">>}

Channels == {None, [bot |-> Str(<<"token">>), chat_id |-> Str(<<"chat">>)]}

InitOutput ==
    InitCall({[list_of_changes |-> l, telegram_output |-> c] :
                 l \in SeqsUpTo(Messages, MaxMsgs), c \in Channels})

CallSendOutput ==
    /\ pc = "call"
    /\ result' = send_output(call.list_of_changes, call.telegram_output)
    /\ pc' = "returned"
    /\ UNCHANGED <<call, args, output_channel, path, file, websites_data,
                   commented_websites, idx, who_changed_list, n_checks, error,
                   file_at_load, loaded, fetches, output, echoed, saved,
                   previous>>

NextOutput == CallSendOutput

SpecOutput == InitOutput /\ [][NextOutput]_vars

\* text is the messages of list in order with an empty line between two
BlankLineSeparated(text, list) ==
    /\ Len(text) = 2 * Len(list) - 1
    /\ \A k \in 1..Len(list) : text[2 * k - 1] = list[k]
    /\ \A k \in 1..(Len(list) - 1) : text[2 * k] = <<>>

\* C9: send_output with an empty list prints nothing and sends nothing on
\* either channel; with a non-empty list and a bot it performs exactly one
\* send, to the configured chat id, of all the messages in order joined by a
\* blank line.
C9_EmptyIsNoOpAndBotSendsOnce ==
    pc = "returned" =>
        /\ call.list_of_changes = <<>> =>
              result.printed = <<>> /\ result.sent = <<>>
        /\ (call.list_of_changes # <<>> /\ call.telegram_output # None) =>
              /\ Len(result.sent) = 1
              /\ result.sent[1].chat_id = call.telegram_output.chat_id
              /\ result.sent[1].bot = call.telegram_output.bot
              /\ BlankLineSeparated(result.sent[1].text, call.list_of_changes)

\* three messages have gone to the bot
C9_Witness ==
    /\ pc = "returned"
    /\ Len(call.list_of_changes) = 3
    /\ call.telegram_output # None
    /\ Len(result.sent) = 1

\* C10: send_output with a non-empty list and no bot prints an empty line,
\* the line '------------', the banner and then the messages separated by a
\* blank line, and nothing else.
C10_TerminalOutputHasSeparator ==
    (pc = "returned" /\ call.list_of_changes # <<>>
       /\ call.telegram_output = None) =>
        /\ Len(result.printed) = 3 + 2 * Len(call.list_of_changes) - 1
        /\ result.printed[1] = <<>>
        /\ result.printed[2] = <<"------------">>
        /\ result.printed[3] = Banner
        /\ BlankLineSeparated(SubSeq(result.printed, 4, Len(result.printed)),
                              call.list_of_changes)
        /\ result.sent = <<>>

(***************************************************************************)
(* Loading and saving on their own: lines 325-326 and 337 of every cycle   *)
(* with no check between them, then one more load.  call holds what the    *)
(* load before the last one returned.                                      *)
(***************************************************************************)
\* well-formed rows: a key and one cell under every attribute column; a key
\* may carry the marker once or twice, or a '#' further on (a URL fragment)
CsvRows ==
    {<<key, hash, filter, date>> :
        key \in {<<"a">>, <<Hash, "c">>, <<Hash, Hash, "c">>, <<"a", Hash, "x">>},
        hash \in {<<>>, <<"h">>},
        filter \in {<<>>, <<"f">>},
        date \in {<<>>, OldDate}}

\* the first column of the header is the key column, named or not
CsvTables ==
    {Table(<<name>> \o Tail(CanonicalHeader), rows) :
        name \in {<<>>, <<"url">>},
        rows \in {r \in SeqsUpTo(CsvRows, MaxRows) : KeysDistinct(r)}}

InitCsv ==
    /\ pc = "csv_load"
    /\ call = None
    /\ result = None
    /\ args = None
    /\ output_channel = None
    /\ path = "file"
    /\ file \in CsvTables
    /\ websites_data = <<>>
    /\ commented_websites = <<>>
    /\ idx = 1
    /\ who_changed_list = <<>>
    /\ n_checks = 0
    /\ error = None
    /\ file_at_load = file
    /\ loaded = <<>>
    /\ fetches = <<>>
    /\ output = Output(<<>>, <<>>)
    /\ echoed = <<>>
    /\ saved = <<>>
    /\ previous = None

\* lines 325-326
CsvLoad ==
    /\ pc = "csv_load"
    /\ LET df == get_csv_data(file)
       IN  IF IndexUnique(df)
           THEN /\ websites_data' = df
                /\ loaded' = df
                /\ commented_websites' = get_commented_data(file)
                /\ call' = IF n_checks = 0 THEN None
                           ELSE [active |-> websites_data,
                                 disabled |-> commented_websites]
                /\ pc' = IF n_checks >= MaxRep THEN "csv_done" ELSE "csv_save"
                /\ UNCHANGED error
           ELSE /\ pc' = "crashed"
                /\ error' = Exception("ValueError")
                /\ UNCHANGED <<websites_data, loaded, commented_websites, call>>
    /\ file_at_load' = file
    /\ UNCHANGED <<args, output_channel, path, file, idx, who_changed_list,
                   n_checks, fetches, output, echoed, saved, previous, result>>

\* lines 337-340
CsvSave ==
    /\ pc = "csv_save"
    /\ saved' = DictMerge(websites_data, commented_websites)
    /\ file' = write_csv_data(saved')
    /\ n_checks' = n_checks + 1
    /\ pc' = "csv_load"
    /\ UNCHANGED <<args, output_channel, path, websites_data,
                   commented_websites, idx, who_changed_list, error,
                   file_at_load, loaded, fetches, output, echoed, previous,
                   call, result>>

NextCsv ==
    \/ CsvLoad
    \/ CsvSave

SpecCsv == InitCsv /\ [][NextCsv]_vars

\* the cell of row under the column of header named name (empty when the
\* header has no such column)
CellUnder(header, row, name) ==
    IF \E j \in 2..Len(header) : header[j] = name
    THEN row[CHOOSE j \in 2..Len(header) : header[j] = name]
    ELSE <<>>

\* C4: after a load-then-save cycle, every disabled row of the loaded table
\* is in the written table with its marker-prefixed key and, under each
\* attribute column, the value it had.
C4_DisabledRowsWrittenBack ==
    (pc = "csv_load" /\ n_checks >= 1) =>
        \A r \in 1..Len(DisabledRows(file_at_load)) :
            LET old == DisabledRows(file_at_load)[r]
            IN  \E w \in 1..Len(file.rows) :
                   /\ file.rows[w][1] = old[1]
                   /\ \A j \in 2..Len(file_at_load.header) :
                         CellUnder(file.header, file.rows[w],
                                   file_at_load.header[j]) = old[j]

\* C5: loading a well-formed table, saving what was loaded and loading
\* again gives the active and the disabled records of the first load, in
\* order and in value.
C5_LoadSaveLoadRoundTrip ==
    (pc \in {"csv_save", "csv_done"} /\ call # None) =>
        /\ websites_data = call.active
        /\ commented_websites = call.disabled

\* C16: a load of a well-formed table ends without an exception and
\* partitions its rows: the disabled records are the rows whose key begins
\* with '#', in order, under their keys as written; the active records are
\* the other rows, in order, each under its whole first cell with the values
\* of its remaining cells; no key is in both.
C16_LoadPartitionsRows ==
    /\ pc # "crashed"
    /\ pc \in {"csv_save", "csv_done"} =>
          LET active == ActiveRows(file_at_load)
              disabled == DisabledRows(file_at_load)
          IN  /\ DictKeys(websites_data)
                   = [i \in 1..Len(active) |-> active[i][1]]
              /\ \A i \in 1..Len(active) :
                    i <= Len(websites_data) =>
                        websites_data[i].v
                          = RowValues(Tail(file_at_load.header), active[i])
              /\ DictKeys(commented_websites)
                   = [i \in 1..Len(disabled) |-> disabled[i][1]]
              /\ \A i \in 1..Len(websites_data) :
                    ~HasKey(commented_websites, websites_data[i].k)

====
